---- MODULE Spec2Model ----
(***************************************************************************)
(* Model of wework-booker: the target-date computation                     *)
(* (booker.get_next_booking_dates), the per-date booking workflow          *)
(* (DeskBooker.book_desk_for_date and the steps it calls) and the two      *)
(* drivers of a run (scheduler.run_booking_job for the command line,       *)
(* gui.booking_thread.BookingThread.run for the desktop UI).               *)
(*                                                                         *)
(* The web portal is the environment: what a browser call finds (a control *)
(* visible or not, the text of a button) and whether the call raises are   *)
(* inputs, drawn with \E in the action that makes the call.                *)
(***************************************************************************)
EXTENDS Integers, Sequences, FiniteSets, TLC

(***************************************************************************)
(* Bounds of the model.                                                    *)
(***************************************************************************)
\* First value of "today" (datetime.now()), as a proleptic Gregorian ordinal:
\* 738944 is Wednesday 2024-02-28, so target dates cross the leap day and a
\* month boundary.
TodayBase == 738944
\* "today" ranges over TodayBase .. TodayBase + TodaySpan (all seven weekdays).
TodaySpan == 6
\* Largest weeks_ahead and longest booking_days list of the date computation.
MaxWeeksAhead == 2
MaxDays == 2
\* A run: "today" ranges over TodayBase .. TodayBase + RunTodaySpan, WEEKS_AHEAD
\* and the weeks of the form go up to RunMaxWeeks, and the runs are those with
\* at most MaxRunDates target dates.
RunTodaySpan == 0
RunMaxWeeks == 1
MaxRunDates == 3

(***************************************************************************)
(* Strings that the code transforms are sequences of one-character strings.*)
(***************************************************************************)
LowerLetters ==
    << "a","b","c","d","e","f","g","h","i","j","k","l","m",
       "n","o","p","q","r","s","t","u","v","w","x","y","z" >>

UpperLetters ==
    << "A","B","C","D","E","F","G","H","I","J","K","L","M",
       "N","O","P","Q","R","S","T","U","V","W","X","Y","Z" >>

\* str.lower() on one character, then on a string.
LowerChar(c) ==
    IF \E i \in 1..26 : UpperLetters[i] = c
    THEN LowerLetters[CHOOSE i \in 1..26 : UpperLetters[i] = c]
    ELSE c

Lower(s) == [i \in 1..Len(s) |-> LowerChar(s[i])]

\* str.upper(), used only to spell the inputs.
UpperChar(c) ==
    IF \E i \in 1..26 : LowerLetters[i] = c
    THEN UpperLetters[CHOOSE i \in 1..26 : LowerLetters[i] = c]
    ELSE c

Upper(s) == [i \in 1..Len(s) |-> UpperChar(s[i])]

Capitalize(s) == [i \in 1..Len(s) |-> IF i = 1 THEN UpperChar(s[i]) ELSE s[i]]

monday    == << "m","o","n","d","a","y" >>
tuesday   == << "t","u","e","s","d","a","y" >>
wednesday == << "w","e","d","n","e","s","d","a","y" >>
thursday  == << "t","h","u","r","s","d","a","y" >>
friday    == << "f","r","i","d","a","y" >>
saturday  == << "s","a","t","u","r","d","a","y" >>
sunday    == << "s","u","n","d","a","y" >>

\* Day name to weekday number mapping (Monday = 0).
DayNames == << monday, tuesday, wednesday, thursday, friday, saturday, sunday >>

\* Mutant: the days numbered from Sunday = 0.
DAY_TO_WEEKDAY_FromSunday ==
    [name \in {DayNames[i] : i \in 1..7} |->
        (CHOOSE i \in 1..7 : DayNames[i] = name) % 7]

DAY_TO_WEEKDAY ==
    [name \in {DayNames[i] : i \in 1..7} |->
        (CHOOSE i \in 1..7 : DayNames[i] = name) - 1]

(***************************************************************************)
(* datetime: a date is its proleptic Gregorian ordinal (the time of day is *)
(* left untouched by timedelta(days=k) and dropped by .date()).            *)
(***************************************************************************)
\* datetime.weekday(): Monday = 0 ... Sunday = 6.
Weekday(ord) == (ord + 6) % 7

IsLeap(year) == year % 4 = 0 /\ (year % 100 # 0 \/ year % 400 = 0)

DaysInMonth(year, month) ==
    IF month = 2 THEN (IF IsLeap(year) THEN 29 ELSE 28)
    ELSE IF month \in {4, 6, 9, 11} THEN 30 ELSE 31

RECURSIVE DaysBeforeMonth(_, _)
DaysBeforeMonth(year, month) ==
    IF month = 1 THEN 0
    ELSE DaysBeforeMonth(year, month - 1) + DaysInMonth(year, month - 1)

\* Days before January 1st of year.
DaysBeforeYear(year) ==
    LET y == year - 1 IN y * 365 + (y \div 4) - (y \div 100) + (y \div 400)

\* The year, month and day of an ordinal.
OrdToYmd(ord) ==
    LET year  == CHOOSE y \in ((ord \div 366) - 1)..((ord \div 365) + 1) :
                     DaysBeforeYear(y) < ord /\ ord <= DaysBeforeYear(y + 1)
        inYear == ord - DaysBeforeYear(year)
        month == CHOOSE m \in 1..12 :
                     /\ DaysBeforeMonth(year, m) < inYear
                     /\ inYear <= DaysBeforeMonth(year, m) + DaysInMonth(year, m)
    IN  [year |-> year, month |-> month, day |-> inYear - DaysBeforeMonth(year, month)]

\* Decimal digits of n, zero-padded to width characters.
Digits == << "0","1","2","3","4","5","6","7","8","9" >>

RECURSIVE Pad(_, _)
Pad(n, width) ==
    IF width = 0 THEN << >>
    ELSE Append(Pad(n \div 10, width - 1), Digits[(n % 10) + 1])

\* date.strftime("%Y-%m-%d")
Strftime(ord) ==
    LET ymd == OrdToYmd(ord)
    IN  Pad(ymd.year, 4) \o << "-" >> \o Pad(ymd.month, 2) \o << "-" >> \o Pad(ymd.day, 2)

(***************************************************************************)
(* get_next_booking_dates                                                  *)
(***************************************************************************)
\* DAY_TO_WEEKDAY[day.lower()] raises KeyError for a name that is no key.
KnownDay(day) == Lower(day) \in DOMAIN DAY_TO_WEEKDAY

\* range(n)
Range(n) == 0..(n - 1)

\* Mutant: today is kept (>= for >).
RECURSIVE ScanOffsetsWithToday(_, _, _, _)
ScanOffsetsWithToday(today, target_weekdays, days_offset, stop) ==
    IF days_offset \notin Range(stop) THEN << >>
    ELSE LET check_date == today + days_offset
             rest == ScanOffsetsWithToday(today, target_weekdays, days_offset + 1, stop)
         IN  IF Weekday(check_date) \in target_weekdays /\ check_date >= today
             THEN << check_date >> \o rest
             ELSE rest

\* The loop over days_offset, from offset up to the end of the range:
\* check_date is appended when its weekday is a target weekday and its
\* date is after today's.
RECURSIVE ScanOffsets(_, _, _, _)
ScanOffsets(today, target_weekdays, days_offset, stop) ==
    IF days_offset \notin Range(stop) THEN << >>
    ELSE LET check_date == today + days_offset
             rest == ScanOffsets(today, target_weekdays, days_offset + 1, stop)
         IN  IF Weekday(check_date) \in target_weekdays /\ check_date > today
             THEN << check_date >> \o rest
             ELSE rest

\* Mutant: range(weeks_ahead * 7), the last week left out.
GetNextBookingDatesShort(today, days, weeks) ==
    IF \E i \in 1..Len(days) : ~KnownDay(days[i])
    THEN [raised |-> TRUE, dates |-> << >>]
    ELSE LET target_weekdays == {DAY_TO_WEEKDAY[Lower(days[i])] : i \in 1..Len(days)}
         IN  [raised |-> FALSE,
              dates  |-> ScanOffsets(today, target_weekdays, 0, weeks * 7)]

\* Mutant: the offsets are scanned once for each name of the list, one name
\* after the other.
RECURSIVE ScanPerName(_, _, _)
ScanPerName(today, days, stop) ==
    IF days = << >> THEN << >>
    ELSE ScanOffsets(today, {DAY_TO_WEEKDAY[Lower(Head(days))]}, 0, stop)
            \o ScanPerName(today, Tail(days), stop)

GetNextBookingDatesPerName(today, days, weeks) ==
    IF \E i \in 1..Len(days) : ~KnownDay(days[i])
    THEN [raised |-> TRUE, dates |-> << >>]
    ELSE [raised |-> FALSE, dates |-> ScanPerName(today, days, weeks * 7 + 7)]

\* The result of a call: raised = TRUE for the KeyError of line 41.
GetNextBookingDates(today, days, weeks) ==
    IF \E i \in 1..Len(days) : ~KnownDay(days[i])
    THEN [raised |-> TRUE, dates |-> << >>]
    ELSE LET target_weekdays == {DAY_TO_WEEKDAY[Lower(days[i])] : i \in 1..Len(days)}
         IN  [raised |-> FALSE,
              dates  |-> ScanOffsets(today, target_weekdays, 0, weeks * 7 + 7)]

(***************************************************************************)
(* State.                                                                  *)
(***************************************************************************)
VARIABLES
    cmd,          \* what is running: "dates" (a call of get_next_booking_dates),
                  \* "book" (main.book -> run_once -> run_booking_job) or
                  \* "gui" (BookingApp.start_booking -> BookingThread.run)
    now,          \* the value datetime.now() returns
    booking_days, \* argument booking_days of the call under "dates"
    weeks_ahead,  \* argument weeks_ahead of the call under "dates"
    pc,           \* position in the code
    dates,        \* what get_next_booking_dates returned
    environ,      \* the .env file and the --debug flag, or the GUI form
    config,       \* the Config of the run
    session,      \* browser resources that are open: playwright, browser, page
    flow,         \* how the with-block of the run is left: "run" (still inside),
                  \* "return" (a return statement), "fall" (off its end),
                  \* "raise" (an exception propagates)
    idx,          \* 1-based index in dates of the date being attempted
    results,      \* the result map under construction
    ret,          \* what run_booking_job returned
    steps,        \* the UI steps the run has called, in order, with their result
    last,         \* the booking attempt in progress or last finished
    signals,      \* the notifications BookingThread has emitted, in order
    files,        \* the screenshots and HTML dumps the run has written
    cli,          \* what the CLI command has echoed, and its exit status
    gui,          \* BookingApp: the start control, the threads it has started
    sched         \* start_scheduler: the clock, the job's next run, the jobs run

runVars ==
    << environ, config, session, flow, idx, results, ret, steps, last, signals,
       files, cli, gui, sched >>

vars == << cmd, now, booking_days, weeks_ahead, pc, dates, runVars >>

NotComputed == [raised |-> FALSE, dates |-> << >>]

\* dict: the empty map and m[key] = value.
EmptyMap == [k \in {} |-> FALSE]

Put(m, key, value) ==
    [k \in (DOMAIN m) \cup {key} |-> IF k = key THEN value ELSE m[k]]

NoConfig == [booking_days |-> << >>, weeks_ahead |-> 0, debug |-> FALSE]

NoReturn == [returned |-> FALSE, caught |-> FALSE, map |-> EmptyMap]

NoAttempt ==
    [date |-> 0, stage |-> "none", selected |-> FALSE, desk |-> "none",
     book_for |-> "none", cost |-> 0 - 1, cancel_visible |-> FALSE,
     done_visible |-> FALSE, calls |-> << >>, ret |-> "none"]

\* Nothing echoed, no exit status yet.
NoExit == 0 - 1

NoOutput == [echoed |-> << >>, exit |-> NoExit]

\* BookingApp as constructed: the start control enabled, no thread started.
\* handled counts the notifications the window has handled; prior is what
\* earlier threads have left open, closing whether an earlier thread has yet to
\* close its browser, early whether a thread was started at such a time.
NoApp ==
    [enabled |-> TRUE, handled |-> 0, threads |-> 0,
     prior |-> {}, closing |-> FALSE, early |-> FALSE]

\* No scheduler started.
\* at is the daily run time, next_run the job's next trigger, jobs the jobs
\* run_pending has started.
NoScheduler == [on |-> FALSE, clock |-> 0, at |-> 0, next_run |-> 0, jobs |-> << >>]

\* The run part of the state before anything ran.
RunIdle ==
    /\ config = NoConfig
    /\ session = {}
    /\ flow = "run"
    /\ idx = 0
    /\ results = EmptyMap
    /\ ret = NoReturn
    /\ steps = << >>
    /\ last = NoAttempt
    /\ signals = << >>
    /\ files = {}
    /\ cli = NoOutput
    /\ gui = NoApp
    /\ sched = NoScheduler

(***************************************************************************)
(* Inputs of the date computation.                                         *)
(***************************************************************************)
funday == << "f","u","n","d","a","y" >>

\* Day names as a caller may spell them: the seven keys, two of them also
\* capitalised and in upper case, and one name that is no key.
DaySpellings ==
    {DayNames[i] : i \in 1..7}
        \cup {Capitalize(wednesday), Upper(thursday), Capitalize(monday)}
        \cup {funday}

RECURSIVE ListsUpTo(_, _)
ListsUpTo(S, n) ==
    IF n = 0 THEN {<< >>}
    ELSE LET shorter == ListsUpTo(S, n - 1)
         IN  shorter \cup {Append(l, x) : l \in shorter, x \in S}

DayLists == ListsUpTo(DaySpellings, MaxDays)

Todays == TodayBase..(TodayBase + TodaySpan)

WeeksAheadValues == (0 - 1)..MaxWeeksAhead

(***************************************************************************)
(* The date computation on its own: every input, one call.                 *)
(***************************************************************************)
InitDates ==
    /\ cmd = "dates"
    /\ now \in Todays
    /\ booking_days \in DayLists
    /\ weeks_ahead \in WeeksAheadValues
    /\ pc = "call"
    /\ dates = NotComputed
    /\ environ = [kind |-> "none"]
    /\ RunIdle

CallGetNextBookingDates ==
    /\ cmd = "dates"
    /\ pc = "call"
    /\ dates' = GetNextBookingDates(now, booking_days, weeks_ahead)
    /\ pc' = "returned"
    /\ UNCHANGED << cmd, now, booking_days, weeks_ahead, runVars >>

NextDates == CallGetNextBookingDates

SpecDates == InitDates /\ [][NextDates]_vars

(***************************************************************************)
(* Properties of get_next_booking_dates.                                   *)
(***************************************************************************)
\* The call returned a list (it did not raise KeyError).
Returned == cmd = "dates" /\ pc = "returned" /\ ~dates.raised

\* The weekday set S the caller named.
NamedWeekdays ==
    {wd \in 0..6 : \E j \in 1..Len(booking_days) : Lower(booking_days[j]) = DayNames[wd + 1]}

CountOn(wd) == Cardinality({i \in 1..Len(dates.dates) : Weekday(dates.dates[i]) = wd})

\* C1: for every weekday set S, every lookahead count w >= 0 and every current
\* date, the call returns exactly w + 1 dates for each weekday in S, also
\* when the current date's own weekday is in S.
C1_CountPerWeekday ==
    (Returned /\ weeks_ahead >= 0) =>
        /\ \A wd \in NamedWeekdays : CountOn(wd) = weeks_ahead + 1
        /\ Len(dates.dates) = Cardinality(NamedWeekdays) * (weeks_ahead + 1)

\* C1 as amended: the call returns w + 1 dates for each weekday of S other
\* than the current date's own weekday and w dates for the current date's own
\* weekday, so |S| * (w + 1) dates in total, less one when the current date's
\* weekday is in S.
C1_CountPerWeekdayButToday ==
    (Returned /\ weeks_ahead >= 0) =>
        /\ \A wd \in NamedWeekdays :
              CountOn(wd) = IF wd = Weekday(now) THEN weeks_ahead ELSE weeks_ahead + 1
        /\ Len(dates.dates) =
              Cardinality(NamedWeekdays) * (weeks_ahead + 1)
                  - (IF Weekday(now) \in NamedWeekdays THEN 1 ELSE 0)

\* A call on a day whose own weekday is named beside another one.
C1_Witness ==
    /\ Returned
    /\ weeks_ahead >= 1
    /\ Weekday(now) \in NamedWeekdays
    /\ Cardinality(NamedWeekdays) = 2

\* C2: every date returned falls on a weekday that is a member of S, the day
\* names being compared case-insensitively.
C2_WeekdayInSet ==
    Returned =>
        \A i \in 1..Len(dates.dates) :
            \E j \in 1..Len(booking_days) :
                Lower(booking_days[j]) = DayNames[Weekday(dates.dates[i]) + 1]

\* A call that returned dates for a name spelled with capital letters.
C2_Witness ==
    /\ Returned
    /\ Len(dates.dates) > 0
    /\ \E j \in 1..Len(booking_days) : booking_days[j] # Lower(booking_days[j])
    /\ \E j \in 1..Len(booking_days) : booking_days[j] = Lower(booking_days[j])

\* C3: every date returned has a calendar date strictly later than the
\* current calendar date.
C3_StrictlyFuture ==
    Returned => \A i \in 1..Len(dates.dates) : dates.dates[i] > now

\* A call on a day whose own weekday is named, with dates returned.
C3_Witness ==
    /\ Returned
    /\ Weekday(now) \in NamedWeekdays
    /\ Len(dates.dates) > 0

(***************************************************************************)
(* Config.from_env and the GUI form.                                       *)
(***************************************************************************)
\* str.strip(): leading and trailing blanks removed.
RECURSIVE Strip(_)
Strip(s) ==
    IF s = << >> THEN s
    ELSE IF Head(s) = " " THEN Strip(Tail(s))
    ELSE IF s[Len(s)] = " " THEN Strip(SubSeq(s, 1, Len(s) - 1))
    ELSE s

\* str.split(","): the items between commas, at least one.
RECURSIVE Split(_)
Split(s) ==
    IF \A i \in 1..Len(s) : s[i] # ","
    THEN << s >>
    ELSE LET i == CHOOSE j \in 1..Len(s) :
                      s[j] = "," /\ \A k \in 1..(j - 1) : s[k] # ","
         IN  << SubSeq(s, 1, i - 1) >> \o Split(SubSeq(s, i + 1, Len(s)))

IsDigit(c) == \E i \in 1..10 : Digits[i] = c

DigitValue(c) == (CHOOSE i \in 1..10 : Digits[i] = c) - 1

RECURSIVE DigitsValue(_)
DigitsValue(s) ==
    IF s = << >> THEN 0
    ELSE DigitsValue(SubSeq(s, 1, Len(s) - 1)) * 10 + DigitValue(s[Len(s)])

\* int(text): raised = TRUE for the ValueError of a text that is no number.
ParseInt(text) ==
    LET body == IF text # << >> /\ Head(text) = "-" THEN Tail(text) ELSE text
    IN  IF body = << >> \/ \E i \in 1..Len(body) : ~IsDigit(body[i])
        THEN [raised |-> TRUE, value |-> 0]
        ELSE [raised |-> FALSE,
              value  |-> IF body = text THEN DigitsValue(body) ELSE 0 - DigitsValue(body)]

\* os.getenv(name, default)
Getenv(var, default) == IF var.set THEN var.value ELSE default

Unset == [set |-> FALSE, value |-> << >>]

Set(text) == [set |-> TRUE, value |-> text]

DefaultBookingDays == wednesday \o << "," >> \o thursday

DefaultWeeksAhead == << "2" >>

\* Config.from_env: raised = TRUE for a ValueError (credentials missing, or
\* WEEKS_AHEAD that int() rejects).
FromEnv(e) ==
    LET email == Getenv(e.WEWORK_EMAIL, << >>)
        password == Getenv(e.WEWORK_PASSWORD, << >>)
        items == Split(Getenv(e.BOOKING_DAYS, DefaultBookingDays))
        weeks == ParseInt(Strip(Getenv(e.WEEKS_AHEAD, DefaultWeeksAhead)))
    IN  IF email = << >> \/ password = << >> \/ weeks.raised
        THEN [raised |-> TRUE, config |-> NoConfig]
        ELSE [raised |-> FALSE,
              config |-> [booking_days |-> [i \in 1..Len(items) |-> Lower(Strip(items[i]))],
                          weeks_ahead  |-> weeks.value,
                          debug        |-> FALSE]]

\* BookingApp.get_selected_days: the checked days, in the order of the boxes.
GuiDays == << monday, tuesday, wednesday, thursday, friday >>

RECURSIVE SelectedFrom(_, _)
SelectedFrom(checked, i) ==
    IF i > Len(GuiDays) THEN << >>
    ELSE (IF i \in checked THEN << GuiDays[i] >> ELSE << >>) \o SelectedFrom(checked, i + 1)

GetSelectedDays(form) == SelectedFrom(form.checked, 1)

\* BookingApp.validate_inputs
ValidateInputs(form) ==
    /\ Strip(form.email) # << >>
    /\ form.password # << >>
    /\ GetSelectedDays(form) # << >>

\* The Config start_booking builds from the form.
ConfigOfForm(form) ==
    [booking_days |-> GetSelectedDays(form),
     weeks_ahead  |-> form.weeks,
     debug        |-> FALSE]

(***************************************************************************)
(* A run: inputs.                                                          *)
(***************************************************************************)
user == << "u","@","w" >>

secret == << "p","w" >>

EnvCredentials ==
    { << Set(user), Set(secret) >>, << Unset, Set(secret) >>,
      << Set(<< >>), Set(secret) >>, << Set(user), Unset >> }

\* BOOKING_DAYS: unset, "Monday, friday", "FRIDAY" and the empty string.
EnvDays ==
    { Unset, Set(Capitalize(monday) \o << ",", " " >> \o friday),
      Set(Upper(friday)), Set(<< >>) }

\* WEEKS_AHEAD: unset, a number up to RunMaxWeeks, and a text that is no number.
EnvWeeks == {Unset, Set(<< "x" >>)} \cup {Set(Pad(k, 1)) : k \in 0..RunMaxWeeks}

EnvFile(c, d, w, g) ==
    [kind |-> "env", WEWORK_EMAIL |-> c[1], WEWORK_PASSWORD |-> c[2],
     BOOKING_DAYS |-> d, WEEKS_AHEAD |-> w, debug |-> g]

\* One setting varies at a time: the credentials, BOOKING_DAYS (with and
\* without --debug), WEEKS_AHEAD.
EnvFiles ==
    {EnvFile(c, Unset, Unset, FALSE) : c \in EnvCredentials}
        \cup {EnvFile(<< Set(user), Set(secret) >>, d, Set(Pad(RunMaxWeeks, 1)), g) :
                 d \in EnvDays, g \in BOOLEAN}
        \cup {EnvFile(<< Set(user), Set(secret) >>, Set(Upper(friday)), w, FALSE) :
                 w \in EnvWeeks}

\* The spin box of the form allows 1 to 4 weeks.
GuiWeeks == {w \in 1..4 : w <= RunMaxWeeks}

GuiForm(e, pw, c, w) ==
    [kind |-> "form", email |-> e, password |-> pw, checked |-> c, weeks |-> w]

\* The boxes checked: none, Wed and Thu (as the form starts), Fri alone,
\* Mon and Tue.
GuiChecked == {{}, {3, 4}, {5}, {1, 2}}

GuiForms ==
    {GuiForm(e, pw, {3, 4}, 1) : e \in {<< >>, << " " >>, user}, pw \in {<< >>, secret}}
        \cup {GuiForm(user, secret, c, w) : c \in GuiChecked, w \in GuiWeeks}

RunTodays == TodayBase..(TodayBase + RunTodaySpan)

\* The number of target dates of a run with this configuration (0 when the
\* configuration does not load or names an unknown day).
TargetCount(today, c) ==
    Len(GetNextBookingDates(today, c.booking_days, c.weeks_ahead).dates)

(***************************************************************************)
(* A run: helpers.                                                         *)
(***************************************************************************)
\* run_booking_job is what runs: under book (by run_once) and under schedule.
Job == cmd \in {"book", "schedule"}

Signal(name, arg) == [sig |-> name, arg |-> arg]

\* BookingThread emits; run_booking_job has nobody to notify.
Emit(list) == IF cmd = "gui" THEN signals \o list ELSE signals

\* A call of a step and how it ended: ok is what it returned (FALSE while it
\* runs and when it raised), raised whether an exception left it, how what
\* the portal did during it.
Step(name, ok) == [step |-> name, ok |-> ok, raised |-> FALSE, date |-> 0, how |-> "none"]

Raised(name) == [Step(name, FALSE) EXCEPT !.raised = TRUE]

How(st, b) == [st EXCEPT !.how = b]

\* A call of book_desk_for_date(date).
BookDesk(date, ok) == [Step("book", ok) EXCEPT !.date = date]

\* Mutant: the result of login is ignored.
AfterLoginGoesOn(r) == "navigate"

\* The branch after browser.login(): on to navigation, or out of the run;
\* test_login leaves its with-block after login() whatever it returned.
AfterLogin(r) == IF r = "true" /\ cmd # "test_login" THEN "navigate" ELSE "close"

\* The branch after browser.navigate_to_desk_booking().
AfterNavigate(r) == IF r = "true" THEN "select_location" ELSE "close"

\* Mutant: a failed location selection ends the run.
AfterSelectLocationAborts(r) ==
    IF r # "true" THEN "close"
    ELSE IF Job THEN "compute_dates" ELSE "book_date"

\* After booker.select_location() the run goes on whatever it returned:
\* run_booking_job calls book_all_configured_dates, which computes the dates;
\* BookingThread enters its loop over the dates it computed at the start.
AfterSelectLocation(r) == IF Job THEN "compute_dates" ELSE "book_date"

(***************************************************************************)
(* A run: the steps up to the loop over the dates.                         *)
(***************************************************************************)
CliCommands == {"book", "schedule", "test_login", "show_dates"}

\* The .env files the commands run with: all of them for book; for the other
\* commands the credentials vary (and BOOKING_DAYS is once the empty string).
EnvFilesOf(command) ==
    IF command = "book" THEN EnvFiles
    ELSE {EnvFile(c, Set(Upper(friday)), Set(Pad(RunMaxWeeks, 1)), FALSE) : c \in EnvCredentials}
            \cup {EnvFile(<< Set(user), Set(secret) >>, Set(<< >>), Unset, FALSE)}

InitRun ==
    /\ cmd \in CliCommands \cup {"gui"}
    /\ now \in RunTodays
    /\ environ \in (IF cmd \in CliCommands THEN EnvFilesOf(cmd) ELSE GuiForms)
    /\ IF cmd \in CliCommands
       THEN ~FromEnv(environ).raised => TargetCount(now, FromEnv(environ).config) <= MaxRunDates
       ELSE TargetCount(now, ConfigOfForm(environ)) <= MaxRunDates
    /\ booking_days = << >>
    /\ weeks_ahead = 0
    /\ pc = "main"
    /\ dates = NotComputed
    /\ RunIdle

\* Mutant: the command reports the error and exits with status 0.
ConfigErrorExitsZero(command) == [echoed |-> << "error" >>, exit |-> 0]

\* What the handler of ValueError of a command echoes and the status it exits
\* with: "error" is the line with the message of the ValueError, "hint" the
\* line "Make sure to copy .env.example to .env and fill in your credentials".
ConfigError(command) ==
    [echoed |-> IF command = "book" THEN << "error", "hint" >> ELSE << "error" >>,
     exit   |-> 1]

\* Where a command goes once it has its configuration: book calls run_once,
\* test_login opens a browser, show_dates computes the dates, schedule calls
\* start_scheduler.
AfterLoadConfig(command) ==
    CASE command = "book"       -> "start_browser"
      [] command = "test_login" -> "start_browser"
      [] command = "show_dates" -> "compute_dates"
      [] command = "schedule"   -> "scheduler"

\* The length of a day in polls of the loop: time.sleep(60) is one tick, and
\* a clock of c is a time within the tick that starts at c.
TicksPerDay == 2

\* --time, the daily run time: the tick at whose start the job is due, the
\* first or the last of a day.
RunTimes == {0, TicksPerDay - 1}

\* Mutant: the trigger last reached stays the next run.
NextRunNotAdvanced(clock, at) ==
    IF clock % TicksPerDay >= at
    THEN clock - (clock % TicksPerDay) + at
    ELSE clock - (clock % TicksPerDay) + at - TicksPerDay

\* The next run of a job scheduled every().day.at(run_time), worked out at a
\* time within tick clock: the first start of a tick `at` that is still to
\* come.
NextRun(clock, at) ==
    IF clock % TicksPerDay < at
    THEN clock - (clock % TicksPerDay) + at
    ELSE clock - (clock % TicksPerDay) + at + TicksPerDay

\* start_scheduler, lines 67-75: the one job is scheduled; the command is
\* started within the first tick of the day `now`.
StartedScheduler(run_time) ==
    [on |-> TRUE, clock |-> 0, at |-> run_time,
     next_run |-> NextRun(0, run_time), jobs |-> << >>]

\* The start of a CLI command (main.book 41-48, schedule 83-89, test_login
\* 105-112, show_dates 129-134): the configuration is loaded, book stores the
\* --debug flag in it; a ValueError ends the command.
LoadConfig ==
    /\ cmd \in CliCommands
    /\ pc = "main"
    /\ LET r == FromEnv(environ)
       IN  IF r.raised
           THEN /\ pc' = "config_error"
                /\ cli' = ConfigError(cmd)
                /\ UNCHANGED config
           ELSE /\ pc' = AfterLoadConfig(cmd)
                /\ config' = [r.config EXCEPT !.debug = (cmd = "book" /\ environ.debug)]
                /\ UNCHANGED cli
    /\ \E run_time \in RunTimes :
          sched' = IF cmd = "schedule" /\ ~FromEnv(environ).raised
                   THEN StartedScheduler(run_time)
                   ELSE sched
    /\ UNCHANGED << cmd, now, booking_days, weeks_ahead, files, gui,
                    dates, environ, session,
                    flow, idx, results, ret, steps, last, signals >>

\* BookingApp.start_booking: nothing starts unless the form validates.
StartBooking ==
    /\ cmd = "gui"
    /\ pc = "main"
    /\ gui.enabled
    /\ IF ValidateInputs(environ)
       THEN /\ pc' = "compute_dates"
            /\ config' = ConfigOfForm(environ)
            /\ gui' = [gui EXCEPT !.enabled = FALSE, !.threads = @ + 1]
       ELSE /\ pc' = "idle"
            /\ UNCHANGED << config, gui >>
    /\ UNCHANGED << cmd, now, booking_days, weeks_ahead, files, cli, sched,
                    dates, environ, session,
                    flow, idx, results, ret, steps, last, signals >>

\* Mutant: the handler returns the results gathered so far.
CrashedReturnsPartial ==
    /\ ret' = IF Job THEN [returned |-> TRUE, caught |-> TRUE, map |-> results] ELSE ret
    /\ signals' = Emit(<< Signal("error_occurred", "exception"),
                          Signal("finished_booking", results) >>)
    /\ cli' = IF cmd \in {"book", "test_login", "show_dates"}
              THEN [cli EXCEPT !.exit = 1] ELSE cli
    /\ pc' = "finished"

\* Mutant: the exception leaves run_booking_job.
CrashedPropagates ==
    /\ ret' = ret
    /\ signals' = Emit(<< Signal("error_occurred", "exception"),
                          Signal("finished_booking", results) >>)
    /\ cli' = IF cmd \in {"book", "test_login", "show_dates"}
              THEN [cli EXCEPT !.exit = 1] ELSE cli
    /\ pc' = "finished"

\* What the handler of an exception that left the run does:
\* run_booking_job returns {} (and book, with no result, exits with status 1),
\* BookingThread emits the error and its results; test_login and show_dates
\* have no handler but for ValueError, and the command dies with status 1.
Crashed ==
    /\ ret' = IF Job THEN [returned |-> TRUE, caught |-> TRUE, map |-> EmptyMap] ELSE ret
    /\ signals' = Emit(<< Signal("error_occurred", "exception"),
                          Signal("finished_booking", results) >>)
    /\ cli' = IF cmd \in {"book", "test_login", "show_dates"}
              THEN [cli EXCEPT !.exit = 1] ELSE cli
    /\ pc' = "finished"

\* get_next_booking_dates as the run calls it: BookingThread.run first of all
\* (lines 28-39), book_all_configured_dates after select_location
\* (booker.py 562-566); show_dates (main.py 134-142) echoes a line for each
\* date, and has no handler for the KeyError of an unknown day name.
ComputeDates ==
    /\ pc = "compute_dates"
    /\ LET r == GetNextBookingDates(now, config.booking_days, config.weeks_ahead)
       IN  /\ dates' = r
           /\ IF cmd = "gui"
              THEN IF r.raised
                   THEN Crashed /\ UNCHANGED << flow, idx >>
                   ELSE IF r.dates = << >>
                   THEN /\ signals' = Emit(<< Signal("error_occurred", "no dates"),
                                              Signal("finished_booking", EmptyMap) >>)
                        /\ pc' = "finished"
                        /\ UNCHANGED << flow, idx, ret, cli >>
                   ELSE /\ signals' = Emit(<< Signal("status_update", "found"),
                                              Signal("status_update", "starting") >>)
                        /\ pc' = "start_browser"
                        /\ UNCHANGED << flow, idx, ret, cli >>
              ELSE IF cmd = "show_dates"
              THEN IF r.raised
                   THEN Crashed /\ UNCHANGED << flow, idx >>
                   ELSE /\ cli' = [echoed |-> [i \in 1..Len(r.dates) |-> "date"], exit |-> 0]
                        /\ pc' = "finished"
                        /\ UNCHANGED << flow, idx, ret, signals >>
              ELSE IF r.raised
                   THEN /\ flow' = "raise"
                        /\ pc' = "close"
                        /\ UNCHANGED << idx, ret, signals, cli >>
                   ELSE IF r.dates = << >>
                   THEN /\ flow' = "return"
                        /\ ret' = [returned |-> FALSE, caught |-> FALSE, map |-> results]
                        /\ pc' = "close"
                        /\ UNCHANGED << idx, signals, cli >>
                   ELSE /\ idx' = 1
                        /\ pc' = "book_date"
                        /\ UNCHANGED << flow, ret, signals, cli >>
    /\ UNCHANGED << cmd, now, booking_days, weeks_ahead, files, gui, sched,
                    environ, config, session,
                    results, steps, last >>

\* WeWorkBrowser.start, entered by the with statement: Playwright, then the
\* browser, then the page. A failure leaves what was started open and raises
\* before the with-block is entered, so close() is not called.
StartOutcomes == {"ok", "playwright_fails", "launch_fails", "new_page_fails"}

Started(outcome) ==
    CASE outcome = "ok"               -> {"playwright", "browser", "page"}
      [] outcome = "new_page_fails"   -> {"playwright", "browser"}
      [] outcome = "launch_fails"     -> {"playwright"}
      [] outcome = "playwright_fails" -> {}

StartBrowser ==
    /\ pc = "start_browser"
    /\ \E outcome \in StartOutcomes :
          /\ session' = Started(outcome)
          /\ IF outcome = "ok"
             THEN /\ pc' = "login"
                  /\ UNCHANGED << ret, signals, cli >>
             ELSE Crashed
    /\ UNCHANGED << cmd, now, booking_days, weeks_ahead, files, gui, sched,
                    dates, environ, config,
                    flow, idx, results, steps, last >>

\* WeWorkBrowser.login: what the portal does, and what login makes of it.
\* page.goto and wait_for_load_state (lines 108-111) are outside the try.
LoginBehaviours ==
    {"goto_raises", "no_email_input", "step_raises", "still_on_login", "logged_in"}

LoginResult(b) ==
    CASE b = "goto_raises" -> "raised"
      [] b = "logged_in"   -> "true"
      [] OTHER             -> "false"

\* How the with-block is left when a step ends the run.
Leave(r) == IF r = "raised" THEN "raise" ELSE "return"

\* The early exits of the run: run_booking_job returns {}; BookingThread emits
\* the error and an empty result, then returns.
AbortRun(r, why) ==
    /\ flow' = Leave(r)
    /\ ret' = IF Job /\ r # "raised"
              THEN [returned |-> FALSE, caught |-> FALSE, map |-> EmptyMap] ELSE ret
    /\ signals' = IF r = "raised" THEN signals
                  ELSE Emit(<< Signal("error_occurred", why),
                               Signal("finished_booking", EmptyMap) >>)

\* The files login writes: the screenshot of the login page with the debug
\* flag set (lines 161-162; the "Member log in" button, with its screenshot of
\* lines 153-154, is taken not to be shown), and the dump of the page when no
\* email input is found (lines 185-189).
LoginFiles(b, debug) ==
    (IF debug /\ b \notin {"goto_raises", "step_raises"}
     THEN {"debug_login_page.png"} ELSE {})
        \cup (IF b = "no_email_input" THEN {"debug_page_content.html"} ELSE {})

\* test_login, lines 113-119: what it echoes after login(), and the wait of
\* ten seconds after a successful login, which may raise.
Login ==
    /\ pc = "login"
    /\ \E b \in LoginBehaviours :
          LET r == LoginResult(b)
              before == Emit(<< Signal("status_update", "logging in") >>)
          IN  /\ steps' = Append(steps, How(IF r = "raised" THEN Raised("login")
                                                     ELSE Step("login", r = "true"), b))
              /\ files' = files \cup LoginFiles(b, config.debug)
              /\ cli' = IF cmd = "test_login" /\ r # "raised"
                        THEN [cli EXCEPT !.echoed =
                                 Append(@, IF r = "true" THEN "login successful"
                                                         ELSE "login failed")]
                        ELSE cli
              /\ pc' = AfterLogin(r)
              /\ IF AfterLogin(r) = "close"
                 THEN /\ \E wait \in (IF cmd = "test_login" /\ r = "true"
                                      THEN {"ok", "raises"} ELSE {"ok"}) :
                            flow' = IF wait = "raises" THEN "raise" ELSE Leave(r)
                      /\ ret' = IF Job /\ r # "raised"
                                THEN [returned |-> FALSE, caught |-> FALSE, map |-> EmptyMap] ELSE ret
                      /\ signals' =
                            IF cmd # "gui" THEN signals
                            ELSE IF r = "raised" THEN before
                            ELSE before \o << Signal("error_occurred", "login"),
                                              Signal("finished_booking", EmptyMap) >>
                 ELSE /\ signals' =
                            IF cmd # "gui" THEN signals
                            ELSE before \o << Signal("status_update", "login ok"),
                                              Signal("status_update", "navigating") >>
                      /\ UNCHANGED << flow, ret >>
    /\ UNCHANGED << cmd, now, booking_days, weeks_ahead, gui, sched,
                    dates, environ, config,
                    session, idx, results, last >>

\* WeWorkBrowser.navigate_to_desk_booking: every call is inside the try.
NavigateBehaviours == {"goto_raises", "loaded"}

NavigateResult(b) == IF b = "loaded" THEN "true" ELSE "false"

Navigate ==
    /\ pc = "navigate"
    /\ \E b \in NavigateBehaviours :
          LET r == NavigateResult(b)
          IN  /\ steps' = Append(steps, How(Step("navigate", r = "true"), b))
              /\ pc' = AfterNavigate(r)
              /\ IF AfterNavigate(r) = "close"
                 THEN AbortRun(r, "navigate")
                 ELSE /\ signals' = Emit(<< Signal("status_update", "selecting location") >>)
                      /\ UNCHANGED << flow, ret >>
    /\ UNCHANGED << cmd, now, booking_days, weeks_ahead, files, cli, gui, sched,
                    dates, environ, config,
                    session, idx, results, last >>

\* DeskBooker.select_location: the selector is found or not, the option is
\* found or not, or a call raises. It returns False only when a call raised.
LocationBehaviours == {"no_selector", "no_option", "selected", "raises"}

SelectLocationResult(b) == IF b = "raises" THEN "false" ELSE "true"

SelectLocation ==
    /\ pc = "select_location"
    /\ \E b \in LocationBehaviours :
          LET r == SelectLocationResult(b)
          IN  /\ steps' = Append(steps, How(Step("select_location", r = "true"), b))
              /\ pc' = AfterSelectLocation(r)
              /\ IF AfterSelectLocation(r) = "close"
                 THEN AbortRun(r, "select_location") /\ UNCHANGED idx
                 ELSE /\ idx' = IF cmd = "gui" THEN 1 ELSE idx
                      /\ UNCHANGED << flow, ret, signals >>
    /\ UNCHANGED << cmd, now, booking_days, weeks_ahead, files, cli, gui, sched,
                    dates, environ, config,
                    session, results, last >>

\* WeWorkBrowser.close, called by __exit__ however the with-block is left:
\* page, browser, Playwright, each closed only if the one before did not raise.
CloseOutcomes == {"ok", "page_raises", "browser_raises", "stop_raises"}

StillOpen(open, outcome) ==
    CASE outcome = "ok"             -> {}
      [] outcome = "stop_raises"    -> open \cap {"playwright"}
      [] outcome = "browser_raises" -> open \cap {"playwright", "browser"}
      [] outcome = "page_raises"    -> open

\* Mutant: book fails when no date was booked.
ExitedFailsWithoutSuccess ==
    CASE cmd = "book" ->
            [echoed |-> [i \in 1..Cardinality(DOMAIN ret.map) |-> "result"],
             exit   |-> IF \A k \in DOMAIN ret.map : ~ret.map[k] THEN 1 ELSE 0]
      [] cmd = "test_login" ->
            [cli EXCEPT !.exit = IF steps[Len(steps)].ok THEN 0 ELSE 1]
      [] OTHER -> cli

\* How a command ends once its with-block was left without an exception:
\* book (main.py 50-60) echoes a line for each result and exits with status 1
\* if there is none; test_login (main.py 113-119) exits with status 1 if
\* login returned False.
Exited ==
    CASE cmd = "book" ->
            [echoed |-> [i \in 1..Cardinality(DOMAIN ret.map) |-> "result"],
             exit   |-> IF ret.map = EmptyMap THEN 1 ELSE 0]
      [] cmd = "test_login" ->
            [cli EXCEPT !.exit = IF steps[Len(steps)].ok THEN 0 ELSE 1]
      [] OTHER -> cli

\* The page and what was clicked on it are gone with the session.
\* After close(): a raised exception (from the block or from close) reaches the
\* handler; a return statement completes; BookingThread falling off the end of
\* the block emits its completion.
CloseBrowser ==
    /\ pc = "close"
    /\ \E outcome \in CloseOutcomes :
          /\ session' = StillOpen(session, outcome)
          /\ IF outcome # "ok" \/ flow = "raise"
             THEN Crashed
             ELSE /\ pc' = "finished"
                  /\ ret' = IF Job THEN [ret EXCEPT !.returned = TRUE] ELSE ret
                  /\ signals' = IF flow = "fall"
                                THEN Emit(<< Signal("status_update", "complete"),
                                             Signal("finished_booking", results) >>)
                                ELSE signals
                  /\ cli' = Exited
    /\ last' = NoAttempt
    /\ UNCHANGED << cmd, now, booking_days, weeks_ahead, files, gui, sched,
                    dates, environ, config,
                    flow, idx, results, steps >>

(***************************************************************************)
(* A run: one booking attempt, DeskBooker.book_desk_for_date.              *)
(***************************************************************************)
Call(control, ok) == [on |-> control, ok |-> ok]

\* Mutant: the progress is worked out from i for i + 1.
ProgressFromZero(i, total) == (i * 100) \div total

\* int(((i + 1) / total_dates) * 100), i counting from 0; the float quotient
\* truncates to this for every total the form allows (at most 35 dates).
Progress(i, total) == ((i + 1) * 100) \div total

\* Mutant: the key is the day before the date.
ResultKeyDayBefore(date) == Strftime(date - 1)

\* date_str = date.strftime("%Y-%m-%d"), the key of the result map.
ResultKey(date) == Strftime(date)

\* The end of one iteration of the loop over the dates, success being what
\* book_desk_for_date returned: the result is stored (and notified), then
\* comes the delay between bookings, page.wait_for_timeout(500), which is
\* outside every try; after the last date run_booking_job returns the map
\* and BookingThread falls off the end of the with-block.
FinishAttempt(success, delay) ==
    LET key == ResultKey(dates.dates[idx])
        stored == Put(results, key, success)
    IN  /\ results' = stored
        /\ steps' = [steps EXCEPT ![Len(steps)] = BookDesk(dates.dates[idx], success)]
        /\ signals' = Emit(<< Signal("booking_result", [key |-> key, success |-> success]),
                              Signal("progress_update", Progress(idx - 1, Len(dates.dates))) >>)
        /\ IF delay = "raises"
           THEN /\ flow' = "raise"
                /\ pc' = "close"
                /\ UNCHANGED << idx, ret >>
           ELSE IF idx = Len(dates.dates)
           THEN /\ flow' = IF Job THEN "return" ELSE "fall"
                /\ ret' = IF Job THEN [returned |-> FALSE, caught |-> FALSE, map |-> stored] ELSE ret
                /\ pc' = "close"
                /\ UNCHANGED idx
           ELSE /\ idx' = idx + 1
                /\ pc' = "book_date"
                /\ UNCHANGED << flow, ret >>

Outcomes == {"ok", "raises"}

\* book_desk_for_date, lines 121-132: with the debug flag set, a screenshot
\* and the page's HTML are written before the try; a failure there leaves
\* book_desk_for_date, and the loop, as an exception. The call is entered in
\* steps, its result when it returns.
\* The files of the debug dump of lines 126-132 (none when it fails).
BookDeskFiles(dump, debug) ==
    IF debug /\ dump = "ok" THEN {"debug_booking.png", "debug_booking.html"} ELSE {}

EnterBookDesk ==
    /\ pc = "book_date"
    /\ \E dump \in (IF config.debug THEN Outcomes ELSE {"ok"}) :
          /\ last' = [NoAttempt EXCEPT !.date = dates.dates[idx], !.stage = "entered"]
          /\ steps' = Append(steps, [BookDesk(dates.dates[idx], FALSE)
                                         EXCEPT !.raised = dump = "raises"])
          /\ signals' = Emit(<< Signal("status_update", "booking") >>)
          /\ files' = files \cup BookDeskFiles(dump, config.debug)
          /\ IF dump = "raises"
             THEN flow' = "raise" /\ pc' = "close"
             ELSE flow' = flow /\ pc' = "select_date"
    /\ UNCHANGED << cmd, now, booking_days, weeks_ahead, cli, gui, sched,
                    dates, environ, config,
                    session, idx, results, ret >>

\* _select_date: the day is clicked as a calendar cell, or by the aria-label
\* fallback, or not at all; it returns nothing either way. Only the calls
\* outside its try blocks (debug screenshot, wait_for_timeout) can raise.
SelectDateBehaviours == {"cell", "aria", "none", "raises"}

\* The screenshot of the calendar, lines 204-205.
SelectDateFiles(b, debug) ==
    IF debug /\ b # "raises" THEN {"debug_calendar.png"} ELSE {}

SelectDate ==
    /\ pc = "select_date"
    /\ \E b \in SelectDateBehaviours :
          /\ files' = files \cup SelectDateFiles(b, config.debug)
          /\ IF b = "raises"
             THEN \E delay \in Outcomes :
                     /\ last' = [last EXCEPT !.stage = "date", !.ret = "false"]
                     /\ FinishAttempt(FALSE, delay)
             ELSE /\ last' = [last EXCEPT !.stage = "date", !.selected = b # "none"]
                  /\ pc' = "select_desk"
                  /\ UNCHANGED << flow, idx, results, ret, steps, signals >>
    /\ UNCHANGED << cmd, now, booking_days, weeks_ahead, cli, gui, sched,
                    dates, environ, config, session >>

\* _select_available_desk: the location card's book button is clicked
\* (strategy 1), or the card is clicked by script because its title is
\* visible (strategy 2), or the location is not found, or a call inside the
\* try raises; the debug screenshot before the try is the one call that
\* raises out of it.
DeskBehaviours == {"button", "script", "not_found", "error", "raises"}

\* Mutant: the result of the desk selection is not looked at.
SelectAvailableDeskUnchecked(b) ==
    IF b = "raises" THEN "raised" ELSE "true"

SelectAvailableDeskResult(b) ==
    CASE b \in {"button", "script"}  -> "true"
      [] b \in {"not_found", "error"} -> "false"
      [] b = "raises"                 -> "raised"

\* The screenshots of lines 307-308 and, once something was clicked, of
\* lines 343-344, 356-357, 368-369, 410-411.
DeskFiles(b, debug) ==
    IF ~debug \/ b = "raises" THEN {}
    ELSE {"debug_location_search.png"}
            \cup (IF b \in {"button", "script"} THEN {"debug_after_book_click.png"} ELSE {})

SelectAvailableDesk ==
    /\ pc = "select_desk"
    /\ \E b \in (IF config.debug THEN DeskBehaviours ELSE DeskBehaviours \ {"raises"}) :
          LET r == SelectAvailableDeskResult(b)
          IN  /\ files' = files \cup DeskFiles(b, config.debug)
              /\ IF r = "true"
                 THEN /\ last' = [last EXCEPT !.stage = "desk", !.desk = b]
                      /\ pc' = "confirm"
                      /\ UNCHANGED << flow, idx, results, ret, steps, signals >>
                 ELSE \E delay \in Outcomes :
                         /\ last' = [last EXCEPT !.stage = "desk", !.desk = b, !.ret = "false"]
                         /\ FinishAttempt(FALSE, delay)
    /\ UNCHANGED << cmd, now, booking_days, weeks_ahead, cli, gui, sched,
                    dates, environ, config, session >>

(***************************************************************************)
(* _confirm_booking                                                        *)
(***************************************************************************)
BookFor == << "B","o","o","k"," ","f","o","r"," " >>

\* re.search(r'Book for (\d+)', btn_text) and int(group(1)): the first place
\* where "Book for " is followed by a digit, and the digits that follow.
SearchCredits(text) ==
    LET n == Len(BookFor)
        starts == {i \in 1..Len(text) :
                      /\ i + n <= Len(text)
                      /\ SubSeq(text, i, i + n - 1) = BookFor
                      /\ IsDigit(text[i + n])}
    IN  IF starts = {}
        THEN [matched |-> FALSE, credits |-> 0]
        ELSE LET i == CHOOSE j \in starts : \A k \in starts : j <= k
                 first == i + n
                 stop == CHOOSE j \in first..Len(text) :
                             /\ \A k \in first..j : IsDigit(text[k])
                             /\ j = Len(text) \/ ~IsDigit(text[j + 1])
             IN  [matched |-> TRUE, credits |-> DigitsValue(SubSeq(text, first, stop))]

credit == << " ","c","r","e","d","i","t" >>

\* Texts of the button that has-text("Book for") finds (has-text ignores case).
ButtonTexts ==
    { BookFor \o << "0" >> \o credit,
      BookFor \o << "1" >> \o credit,
      BookFor \o << "1", "0" >> \o credit \o << "s" >>,
      BookFor \o << "f","r","e","e" >>,
      Lower(BookFor) \o << "0" >> \o credit }

\* The Done selectors, tried in order: each finds nothing visible, or a button
\* that is clicked, or a button whose click raises.
DoneSelectors == 4

NoDone == [i \in 1..DoneSelectors |-> "hidden"]

DoneBehaviours ==
    { NoDone,
      [NoDone EXCEPT ![1] = "ok"],
      [NoDone EXCEPT ![1] = "click_raises", ![2] = "ok"],
      [NoDone EXCEPT ![3] = "click_raises"] }

\* lines 465-489: the loop over the Done selectors.
RECURSIVE DoneLoop(_, _)
DoneLoop(done, i) ==
    IF i > Len(done) THEN [clicked |-> FALSE, calls |-> << >>]
    ELSE IF done[i] = "hidden" THEN DoneLoop(done, i + 1)
    ELSE IF done[i] = "ok" THEN [clicked |-> TRUE, calls |-> << Call("done", TRUE) >>]
    ELSE LET rest == DoneLoop(done, i + 1)
         IN  [clicked |-> rest.clicked, calls |-> << Call("done", FALSE) >> \o rest.calls]

CancelCalls(b) ==
    CASE b.cancel = "visible"      -> << Call("cancel", TRUE) >>
      [] b.cancel = "click_raises" -> << Call("cancel", FALSE) >>
      [] b.cancel = "hidden"       -> << >>

\* lines 545-554: close any open dialog, return False.
CloseDialog(b, calls) == [ret |-> "false", calls |-> calls \o CancelCalls(b)]

\* lines 524-540: any confirm-like button is clicked, and True returned.
FallbackConfirm(b, calls) ==
    CASE b.fallback = "visible"      -> [ret |-> "true", calls |-> calls \o << Call("confirm", TRUE) >>]
      [] b.fallback = "wait_raises"  -> CloseDialog(b, calls \o << Call("confirm", TRUE) >>)
      [] b.fallback = "click_raises" -> CloseDialog(b, calls \o << Call("confirm", FALSE) >>)
      [] b.fallback = "none"         -> CloseDialog(b, calls)

\* Mutant: a booking that costs credits is confirmed like a free one.
NonZeroCostConfirms(b) == [ret |-> "true", calls |-> << Call("book_for", TRUE) >>]

\* lines 514-522: the booking costs credits; Cancel is clicked if visible.
NonZeroCost(b) ==
    CASE b.cancel = "hidden"       -> [ret |-> "false", calls |-> << >>]
      [] b.cancel = "visible"      -> [ret |-> "false", calls |-> << Call("cancel", TRUE) >>]
      [] b.cancel = "click_raises" -> CloseDialog(b, << Call("cancel", FALSE) >>)

\* lines 450-513: the booking is free; the button is clicked, then Done.
ZeroCost(b) ==
    IF b.click = "raises" THEN CloseDialog(b, << Call("book_for", FALSE) >>)
    ELSE LET clicked == << Call("book_for", TRUE) >>
             d == DoneLoop(b.done, 1)
         IN  IF b.after = "raises" THEN CloseDialog(b, clicked)
             ELSE IF d.clicked THEN [ret |-> "true", calls |-> clicked \o d.calls]
             ELSE IF b.count = "raises" THEN CloseDialog(b, clicked \o d.calls)
             ELSE [ret |-> "true", calls |-> clicked \o d.calls]

\* The credits read from the button, NoCost when none were read.
NoCost == 0 - 1

CostRead(b) ==
    IF b.pre = "ok" /\ b.book_for = "visible" /\ b.read = "ok" /\ SearchCredits(b.text).matched
    THEN SearchCredits(b.text).credits
    ELSE NoCost

\* _confirm_booking: ret is "true", "false" or "raised".
ConfirmBookingResult(b) ==
    IF b.pre = "raises" THEN [ret |-> "raised", calls |-> << >>]
    ELSE IF b.book_for = "hidden" THEN FallbackConfirm(b, << >>)
    ELSE IF b.read = "raises" THEN CloseDialog(b, << >>)
    ELSE IF CostRead(b) = NoCost THEN FallbackConfirm(b, << >>)
    ELSE IF CostRead(b) = 0 THEN ZeroCost(b)
    ELSE NonZeroCost(b)

\* What the portal does during one _confirm_booking, field by field:
\*   pre       wait_for_timeout(500) and the debug screenshot, before the try
\*   book_for  the "Book for" button: "visible" or "hidden"
\*   read      inner_text() of it
\*   text      the text read
\*   click     book_btn.click()
\*   after     wait_for_timeout(1500) and the debug screenshot after the click
\*   done      the Done selectors
\*   count     locator(...).count() of the success checks
\*   cancel    the Cancel button: "hidden", "visible", or its click raises
\*   fallback  the confirm-like buttons: "none", "visible", its click raises,
\*             or the wait after its click raises
\* The behaviours enumerated differ in something _confirm_booking looks at.
Default ==
    [pre |-> "ok", book_for |-> "visible", read |-> "ok",
     text |-> BookFor \o << "0" >> \o credit, click |-> "ok", after |-> "ok",
     done |-> NoDone, count |-> "ok", cancel |-> "hidden", fallback |-> "none"]

Cancels == {"hidden", "visible", "click_raises"}

WithCancel(S) == {[b EXCEPT !.cancel = c] : b \in S, c \in Cancels}

FallbackBehaviours(b) ==
    {[b EXCEPT !.fallback = "visible"]}
        \cup WithCancel({[b EXCEPT !.fallback = f] : f \in {"none", "click_raises", "wait_raises"}})

ZeroTexts == {t \in ButtonTexts : SearchCredits(t).matched /\ SearchCredits(t).credits = 0}

CostlyTexts == {t \in ButtonTexts : SearchCredits(t).matched /\ SearchCredits(t).credits > 0}

OtherTexts == {t \in ButtonTexts : ~SearchCredits(t).matched}

ZeroCostBehaviours(b) ==
    WithCancel({[b EXCEPT !.click = "raises"], [b EXCEPT !.after = "raises"]})
        \cup {[b EXCEPT !.done = d] : d \in DoneBehaviours}
        \cup WithCancel({[b EXCEPT !.done = d, !.count = "raises"] :
                            d \in {x \in DoneBehaviours : ~DoneLoop(x, 1).clicked}})

ConfirmBehaviours ==
    {[Default EXCEPT !.pre = "raises"]}
        \cup FallbackBehaviours([Default EXCEPT !.book_for = "hidden"])
        \cup WithCancel({[Default EXCEPT !.read = "raises"]})
        \cup UNION {FallbackBehaviours([Default EXCEPT !.text = t]) : t \in OtherTexts}
        \cup WithCancel({[Default EXCEPT !.text = t] : t \in CostlyTexts})
        \cup UNION {ZeroCostBehaviours([Default EXCEPT !.text = t]) : t \in ZeroTexts}

\* book_desk_for_date, lines 144-154: True when _confirm_booking returned
\* True; False when it returned False or an exception reached the handler.
BookDeskResult(r) == r = "true"

\* The screenshots of lines 430-431 and, after the click on the free
\* booking, of lines 460-461.
ConfirmFiles(b, debug) ==
    IF ~debug \/ b.pre = "raises" THEN {}
    ELSE {"debug_confirm_dialog.png"}
            \cup (IF CostRead(b) = 0 /\ b.click = "ok" /\ b.after = "ok"
                  THEN {"debug_after_confirm.png"} ELSE {})

ConfirmBooking ==
    /\ pc = "confirm"
    /\ \E b \in ConfirmBehaviours, delay \in Outcomes :
          LET c == ConfirmBookingResult(b)
              success == BookDeskResult(c.ret)
          IN  /\ last' = [last EXCEPT !.stage = "confirm",
                                      !.book_for = IF b.pre = "ok" THEN b.book_for ELSE "none",
                                      !.cost = CostRead(b),
                                      !.cancel_visible = b.cancel # "hidden",
                                      !.done_visible = b.done # NoDone,
                                      !.calls = c.calls,
                                      !.ret = IF success THEN "true" ELSE "false"]
              /\ files' = files \cup ConfirmFiles(b, config.debug)
              /\ FinishAttempt(success, delay)
    /\ UNCHANGED << cmd, now, booking_days, weeks_ahead, cli, gui, sched,
                    dates, environ, config, session >>

(***************************************************************************)
(* The scheduler: start_scheduler's polling loop (scheduler.py 77-82),     *)
(* which calls run_booking_job from schedule.run_pending().                *)
(***************************************************************************)
MaxJobs == 2

\* The loop is followed for a day more than the jobs need.
MaxClock == (MaxJobs + 1) * TicksPerDay

\* How long a job may take, in ticks: less than a tick, or a whole day.
JobTicks == {0, TicksPerDay}

\* The date at a time of the clock, the command having started on day0.
DateAt(day0, clock0, clock) ==
    day0 + (clock \div TicksPerDay) - (clock0 \div TicksPerDay)

\* A job run_pending has started: the trigger it was due at, when it began,
\* when it returned (NoExit while it runs), whether its handler caught an
\* exception.
StartedJob(trigger, began) ==
    [trigger |-> trigger, began |-> began, ended |-> NoExit, caught |-> FALSE]

\* One turn of the loop with no job running: schedule.run_pending() calls
\* run_booking_job if the job is due (now >= next_run), and otherwise returns
\* and the loop sleeps, time.sleep(60).
RunPending ==
    /\ cmd = "schedule"
    /\ pc = "scheduler"
    /\ IF sched.clock >= sched.next_run
       THEN /\ Len(sched.jobs) < MaxJobs
            /\ pc' = "start_browser"
            /\ sched' = [sched EXCEPT
                            !.jobs = Append(@, StartedJob(sched.next_run, sched.clock))]
            /\ UNCHANGED now
       ELSE /\ sched.clock < MaxClock
            /\ pc' = "scheduler"
            /\ sched' = [sched EXCEPT !.clock = @ + 1]
            /\ now' = DateAt(now, sched.clock, sched.clock + 1)
    /\ UNCHANGED << cmd, booking_days, weeks_ahead, dates, files, cli, gui,
                    environ, config, session,
                    flow, idx, results, ret, steps, last, signals >>

\* run_booking_job is over, some ticks after it began.  If it returned, the
\* job is scheduled again (its next run is worked out at the time of its
\* return), the objects of the run are dropped and the loop sleeps; an
\* exception that left it would leave run_pending and start_scheduler too, and
\* main.schedule (lines 95-97) would exit with status 1.
JobReturns ==
    /\ cmd = "schedule"
    /\ pc = "finished"
    /\ \E took \in JobTicks :
          LET ended == sched.clock + took
              n == Len(sched.jobs)
          IN  IF ret.returned
              THEN /\ pc' = "scheduler"
                   /\ sched' = [sched EXCEPT
                                   !.clock = ended + 1,
                                   !.next_run = NextRun(ended, sched.at),
                                   !.jobs[n].ended = ended,
                                   !.jobs[n].caught = ret.caught]
                   /\ now' = DateAt(now, sched.clock, ended + 1)
                   /\ cli' = cli
              ELSE /\ pc' = "stopped"
                   /\ sched' = [sched EXCEPT !.on = FALSE, !.jobs[n].ended = ended]
                   /\ now' = DateAt(now, sched.clock, ended)
                   /\ cli' = [cli EXCEPT !.exit = 1]
    /\ dates' = NotComputed
    /\ session' = {}
    /\ flow' = "run"
    /\ idx' = 0
    /\ results' = EmptyMap
    /\ ret' = NoReturn
    /\ steps' = << >>
    /\ last' = NoAttempt
    /\ UNCHANGED << cmd, booking_days, weeks_ahead, files, gui, environ, config, signals >>

\* The schedule command with a .env file that loads.
InitSched ==
    /\ cmd = "schedule"
    /\ now = TodayBase
    /\ environ = EnvFile(<< Set(user), Set(secret) >>, Set(Upper(friday)), Set(<< "1" >>), FALSE)
    /\ booking_days = << >>
    /\ weeks_ahead = 0
    /\ pc = "main"
    /\ dates = NotComputed
    /\ RunIdle

NextSched ==
    \/ LoadConfig
    \/ RunPending
    \/ StartBrowser
    \/ Login
    \/ Navigate
    \/ SelectLocation
    \/ ComputeDates
    \/ EnterBookDesk
    \/ SelectDate
    \/ SelectAvailableDesk
    \/ ConfirmBooking
    \/ CloseBrowser
    \/ JobReturns

SpecSched == InitSched /\ [][NextSched]_vars

(***************************************************************************)
(* The window: BookingApp handles the notifications of its BookingThread   *)
(* in the main thread, and the start control can be pressed whenever it is *)
(* enabled (gui/app.py 190-251).                                           *)
(***************************************************************************)
MaxThreads == 2

\* on_booking_finished, lines 240-243: set_ui_enabled(True).  It is the slot
\* of finished_booking; the slots of the other notifications (update_status,
\* update_progress, on_booking_result, on_error) only write labels, so they
\* are passed over up to the next finished_booking not yet handled.
OnBookingFinished ==
    /\ cmd = "gui"
    /\ \E i \in (gui.handled + 1)..Len(signals) :
          /\ signals[i].sig = "finished_booking"
          /\ \A j \in (gui.handled + 1)..(i - 1) : signals[j].sig # "finished_booking"
          /\ gui' = [gui EXCEPT !.handled = i, !.enabled = TRUE]
    /\ UNCHANGED << cmd, now, booking_days, weeks_ahead, pc, dates, files, cli, sched,
                    environ, config, session,
                    flow, idx, results, ret, steps, last, signals >>

\* start_booking pressed again, lines 190-219: nothing but the enabled start
\* control is asked, and self.booking_thread is replaced by a new
\* BookingThread (line 213) whatever the earlier one is doing; what the
\* earlier thread holds open stays with it.
StartBookingAgain ==
    /\ cmd = "gui"
    /\ pc \in {"close", "finished"}
    /\ gui.enabled
    /\ gui.threads < MaxThreads
    /\ ValidateInputs(environ)
    /\ gui' = [enabled |-> FALSE, handled |-> 0, threads |-> gui.threads + 1,
               prior |-> gui.prior \cup session,
               closing |-> (pc = "close"),
               early |-> (gui.early \/ pc = "close")]
    /\ config' = ConfigOfForm(environ)
    /\ pc' = "compute_dates"
    /\ dates' = NotComputed
    /\ session' = {}
    /\ flow' = "run"
    /\ idx' = 0
    /\ results' = EmptyMap
    /\ ret' = NoReturn
    /\ steps' = << >>
    /\ last' = NoAttempt
    /\ signals' = << >>
    /\ UNCHANGED << cmd, now, booking_days, weeks_ahead, files, cli, sched, environ >>

\* The earlier thread leaves its with-block, BrowserManager.close
\* (browser.py 83-92); when close raises, the handler of run (lines 91-94)
\* emits error_occurred and finished_booking, whose slot enables the start
\* control again.
PriorCloses ==
    /\ cmd = "gui"
    /\ gui.closing
    /\ \E outcome \in CloseOutcomes :
          gui' = [gui EXCEPT !.closing = FALSE,
                             !.prior = StillOpen(@, outcome),
                             !.enabled = (@ \/ outcome # "ok")]
    /\ UNCHANGED << cmd, now, booking_days, weeks_ahead, pc, dates, files, cli, sched,
                    environ, config, session,
                    flow, idx, results, ret, steps, last, signals >>

\* The window is opened with a form that validates.
InitGui ==
    /\ cmd = "gui"
    /\ now = TodayBase
    /\ environ = GuiForm(user, secret, {5}, 1)
    /\ booking_days = << >>
    /\ weeks_ahead = 0
    /\ pc = "main"
    /\ dates = NotComputed
    /\ RunIdle

NextGui ==
    \/ StartBooking
    \/ ComputeDates
    \/ StartBrowser
    \/ Login
    \/ Navigate
    \/ SelectLocation
    \/ EnterBookDesk
    \/ SelectDate
    \/ SelectAvailableDesk
    \/ ConfirmBooking
    \/ CloseBrowser
    \/ OnBookingFinished
    \/ StartBookingAgain
    \/ PriorCloses

SpecGui == InitGui /\ [][NextGui]_vars

(***************************************************************************)
(* The specification of a run.                                             *)
(***************************************************************************)
Next ==
    \/ LoadConfig
    \/ StartBooking
    \/ ComputeDates
    \/ StartBrowser
    \/ Login
    \/ Navigate
    \/ SelectLocation
    \/ EnterBookDesk
    \/ SelectDate
    \/ SelectAvailableDesk
    \/ ConfirmBooking
    \/ CloseBrowser

Spec == InitRun /\ [][Next]_vars

(***************************************************************************)
(* Properties of a booking attempt and of a run.                           *)
(***************************************************************************)
\* The key of the attempt in progress or last finished, and whether
\* book_desk_for_date has returned for it.
Key == Strftime(last.date)

AttemptDone == last.ret # "none"

\* click() was called on the control / returned normally / how often called.
Tried(control) == \E i \in 1..Len(last.calls) : last.calls[i].on = control

Clicked(control) == \E i \in 1..Len(last.calls) : last.calls[i] = Call(control, TRUE)

CallsOn(control) == Cardinality({i \in 1..Len(last.calls) : last.calls[i].on = control})

\* C4: during a booking attempt a booking-confirming control (the "Book for"
\* button or any other confirm-like button) is clicked only if the credit cost
\* read from the confirmation control equals zero; in every other case nothing
\* is confirmed. (The claim's last part, that the dialog is then cancelled, is
\* C5's subject.)
C4_ConfirmOnlyAtZeroCost ==
    (Clicked("book_for") \/ Clicked("confirm")) => last.cost = 0

\* C5: when the confirmation control shows a non-zero cost, _confirm_booking
\* never clicks the book button, cancels the dialog and returns False, and
\* False is recorded for the date.
C5_NonZeroCostCancels ==
    (AttemptDone /\ last.cost > 0) =>
        /\ ~Tried("book_for")
        /\ Tried("cancel")
        /\ last.ret = "false"
        /\ results[Key] = FALSE

\* C5 as amended: when the confirmation control shows a non-zero cost,
\* _confirm_booking clicks neither the book button nor a confirm-like button,
\* clicks Cancel exactly when a Cancel button is visible (the dialog stays
\* open otherwise) and returns False, and False is recorded for the date.
C5_NonZeroCostNeverBooks ==
    (AttemptDone /\ last.cost > 0) =>
        /\ ~Tried("book_for")
        /\ ~Tried("confirm")
        /\ Tried("cancel") <=> last.cancel_visible
        /\ last.ret = "false"
        /\ results[Key] = FALSE

\* An attempt that read a non-zero cost and clicked Cancel.
C5_Witness ==
    /\ AttemptDone
    /\ last.cost > 0
    /\ Clicked("cancel")
    /\ results[Key] = FALSE

\* C6: when the confirmation control shows a cost of zero, _confirm_booking
\* clicks the book button exactly once, then clicks a Done control if one
\* becomes visible, and the date is recorded as True. (Stated for the
\* attempts in which the click on the book button went through.)
C6_ZeroCostBooked ==
    (AttemptDone /\ last.cost = 0 /\ Clicked("book_for")) =>
        /\ CallsOn("book_for") = 1
        /\ last.done_visible => Tried("done")
        /\ results[Key] = TRUE

\* C7: for every attempted date the value in the result map is True exactly
\* when the outcome was "booked" (cost read as 0 and confirmed), and False for
\* the outcomes "skipped" (cost > 0) and "not-found".
C7_TrueIffBooked ==
    AttemptDone => (results[Key] = TRUE <=> (last.cost = 0 /\ Clicked("book_for")))

\* The keys of the target dates of the run, and the maps BookingThread
\* delivered with finished_booking.
TargetKeys == {Strftime(dates.dates[i]) : i \in 1..Len(dates.dates)}

FinishedMaps ==
    {signals[i].arg : i \in {j \in 1..Len(signals) : signals[j].sig = "finished_booking"}}

Emitted(name) == \E i \in 1..Len(signals) : signals[i].sig = name

\* C8: in every reachable state of a run, every key of the result map (while
\* it is built, as run_booking_job returns it, as BookingThread delivers it)
\* is the YYYY-MM-DD string of a date in the target date list of the run.
C8_KeysAreTargetDates ==
    LET keys == TargetKeys
    IN  /\ \A k \in DOMAIN results : k \in keys
        /\ \A k \in DOMAIN ret.map : k \in keys
        /\ \A m \in FinishedMaps : \A k \in DOMAIN m : k \in keys

\* A finished run with a result for each of its two or more target dates.
C8_Witness ==
    /\ pc = "finished"
    /\ Len(dates.dates) >= 2
    /\ Cardinality(DOMAIN results) = Len(dates.dates)

\* The steps called so far, and failures among them.
StepsCalled == {steps[i].step : i \in 1..Len(steps)}

LoginFailed == \E i \in 1..Len(steps) : steps[i].step = "login" /\ ~steps[i].ok

NavigateFailed == \E i \in 1..Len(steps) : steps[i].step = "navigate" /\ ~steps[i].ok

LocationFailed == \E i \in 1..Len(steps) : steps[i].step = "select_location" /\ ~steps[i].ok

RunOver == pc \in {"close", "finished"}

\* The run ended with an empty result map: run_booking_job returned {};
\* BookingThread emitted an error and delivered {} (and nothing else).
EndedEmpty ==
    /\ Job => (ret.returned /\ ret.map = EmptyMap)
    /\ cmd = "gui" => (Emitted("error_occurred") /\ FinishedMaps = {EmptyMap})

\* C9: if login fails the whole run is aborted: no navigation to the booking
\* page, no location selection and no booking attempt happens afterwards, and
\* the result map of the run is empty.
C9_LoginFailureAborts ==
    LoginFailed =>
        /\ StepsCalled = {"login"}
        /\ RunOver
        /\ results = EmptyMap
        /\ pc = "finished" => EndedEmpty

\* A run that ended after a failed login.
C9_Witness == LoginFailed /\ pc = "finished"

\* C10: only a configuration error or a login failure aborts a run: when
\* navigation to the booking page fails or location selection fails, the run
\* is not aborted and still goes on (to the location selection, to the
\* attempts for the target dates).
C10_OnlyLoginAborts ==
    /\ (NavigateFailed /\ RunOver) => "select_location" \in StepsCalled
    /\ (LocationFailed /\ RunOver /\ Len(dates.dates) > 0) => "book" \in StepsCalled

\* C10 as amended: a configuration error, a login failure or a failed
\* navigation to the booking page aborts a run (nothing further is called and
\* the result map is empty); when location selection fails the run is not
\* aborted and goes on to attempt the target dates.
C10_NavigationAbortsLocationDoesNot ==
    /\ pc = "config_error" => (steps = << >> /\ session = {} /\ results = EmptyMap)
    /\ C9_LoginFailureAborts
    /\ NavigateFailed =>
          /\ StepsCalled = {"login", "navigate"}
          /\ RunOver
          /\ results = EmptyMap
          /\ pc = "finished" => EndedEmpty
    /\ (LocationFailed /\ RunOver /\ Len(dates.dates) > 0) => "book" \in StepsCalled

\* A run that ended after a failed location selection and a booking attempt.
C10_Witness ==
    /\ LocationFailed
    /\ pc = "finished"
    /\ "book" \in StepsCalled

(***************************************************************************)
(* Properties of the order of a run and of its steps.                      *)
(***************************************************************************)
IsBookDesk(st) == st.step = "book"

\* The dates book_desk_for_date was called with, in the order of the calls.
Attempted ==
    LET calls == SelectSeq(steps, IsBookDesk)
    IN  [i \in 1..Len(calls) |-> calls[i].date]

PastNavigation == \E i \in 1..Len(steps) : steps[i].step = "navigate" /\ steps[i].ok

\* C11: in a run that got past login and navigation, every target date is
\* attempted exactly once, in list order: when the run is over the dates
\* attempted are the target dates, whatever failed in the attempt for one of
\* them.
C11_EveryDateAttemptedOnce ==
    (pc = "finished" /\ PastNavigation) => Attempted = dates.dates

\* C12: each UI step a run calls (login, navigate_to_desk_booking,
\* select_location, book_desk_for_date) returns a boolean and never raises,
\* with or without the debug flag: no call of a step is left by an exception.
C12_StepsNeverRaise ==
    \A i \in 1..Len(steps) : ~steps[i].raised

\* C13: a UI step whose selectors all fail to locate its control reports
\* failure: select_location returns False when the location selector or the
\* location option is not found, _select_available_desk when the location
\* card is not found, _confirm_booking when neither the "Book for" button nor
\* a confirm-like button is found.
C13_NothingFoundReturnsFalse ==
    /\ \A i \in 1..Len(steps) :
          (steps[i].step = "select_location" /\ steps[i].how \in {"no_selector", "no_option"})
              => ~steps[i].ok
    /\ (AttemptDone /\ last.desk = "not_found") => last.ret = "false"
    /\ (AttemptDone /\ last.book_for = "hidden" /\ ~Tried("confirm")) => last.ret = "false"

(***************************************************************************)
(* Properties of the CLI commands.                                         *)
(***************************************************************************)
\* The command has run its Config.from_env() with WEWORK_EMAIL or
\* WEWORK_PASSWORD unset or empty.
MissingCredentials ==
    /\ cmd \in CliCommands
    /\ pc # "main"
    /\ \/ Getenv(environ.WEWORK_EMAIL, << >>) = << >>
       \/ Getenv(environ.WEWORK_PASSWORD, << >>) = << >>

Echoed(line) == \E i \in 1..Len(cli.echoed) : cli.echoed[i] = line

\* Nothing was started: no browser session, no step, no scheduler loop.
NothingStarted == session = {} /\ steps = << >> /\ ~sched.on

\* C14: every CLI command that loads the configuration (book, schedule,
\* test-login, show-dates), run with the email or the password missing or
\* empty, reports a configuration error together with a remediation hint,
\* exits with a non-zero status and starts neither a browser session nor the
\* scheduler loop.
C14_ConfigErrorWithHint ==
    MissingCredentials =>
        /\ Echoed("error")
        /\ Echoed("hint")
        /\ cli.exit > 0
        /\ NothingStarted

\* C14 as amended: every such command echoes the message of the configuration
\* error, exits with status 1 and starts neither a browser session nor the
\* scheduler loop; the remediation hint (copy .env.example to .env) is echoed
\* by book only.
C14_ConfigErrorHintOnlyInBook ==
    MissingCredentials =>
        /\ pc = "config_error"
        /\ Echoed("error")
        /\ Echoed("hint") <=> cmd = "book"
        /\ cli.exit = 1
        /\ NothingStarted

\* schedule run without a password.
C14_Witness ==
    /\ MissingCredentials
    /\ cmd = "schedule"
    /\ ~environ.WEWORK_PASSWORD.set
    /\ pc = "config_error"

\* C15: debug artifacts are written only when the debug flag is set: in a
\* run with config.debug false no screenshot and no HTML dump is written by
\* any step, on success and on failure paths alike.
C15_NoArtifactsWithoutDebug ==
    ~config.debug => files = {}


(***************************************************************************)
(* C16: at most one browser session is open at any time; in the window a   *)
(* new BookingThread is never started while an earlier thread has yet to   *)
(* close its browser session, or while a session of an earlier thread is   *)
(* still open.                                                             *)
(***************************************************************************)
C16_OneSessionAtATime ==
    /\ ~gui.early
    /\ ~(session # {} /\ gui.prior # {})

(***************************************************************************)
(* The scheduler's jobs.                                                   *)
(***************************************************************************)
JobCount == Len(sched.jobs)

\* A job runs from RunPending to JobReturns.
JobRunning == JobCount > 0 /\ sched.jobs[JobCount].ended = NoExit

\* C17: in scheduler mode the jobs run strictly one after another (a job
\* begins only after the job before it has returned, and only the last job
\* started can be running), every job is caused by a daily trigger time that
\* has come, and no trigger time causes two jobs.
C17_JobsOneAfterAnother ==
    /\ \A i \in 1..JobCount :
          /\ sched.jobs[i].trigger % TicksPerDay = sched.at
          /\ sched.jobs[i].trigger <= sched.jobs[i].began
          /\ i < JobCount => /\ sched.jobs[i].ended # NoExit
                             /\ sched.jobs[i].ended <= sched.jobs[i + 1].began
    /\ \A i, j \in 1..JobCount : i # j => sched.jobs[i].trigger # sched.jobs[j].trigger
    /\ (sched.on /\ pc # "scheduler") => JobRunning

\* A second job has begun after a first one that took a whole day or more,
\* so that a trigger time passed while it ran.
C17_Witness ==
    /\ JobCount = 2
    /\ sched.jobs[1].ended - sched.jobs[1].began >= TicksPerDay
    /\ pc = "login"

\* C18: run_booking_job never raises: when a run fails with an exception
\* (the browser does not start, an exception leaves a step, the browser does
\* not close) run_booking_job returns the empty map, so that the polling loop
\* is never left and goes on with the later triggers.
C18_JobNeverRaises ==
    cmd = "schedule" =>
        /\ pc # "stopped"
        /\ pc = "finished" => ret.returned
        /\ ret.caught => ret.map = EmptyMap
        /\ JobCount > 0 => sched.on

\* A job has begun at a later trigger after a job whose handler caught an
\* exception.
C18_Witness ==
    /\ JobCount = 2
    /\ sched.jobs[1].caught
    /\ sched.jobs[1].trigger < sched.jobs[2].trigger
    /\ pc = "login"

(***************************************************************************)
(* The notifications of one BookingThread.run.                             *)
(***************************************************************************)
Emissions(name) == {i \in 1..Len(signals) : signals[i].sig = name}

\* C19: on every path of BookingThread.run, finished_booking is emitted
\* exactly once and is the last notification of the run, and error_occurred
\* is emitted at most once, and only before finished_booking.
C19_FinishedOnceAndLast ==
    cmd = "gui" =>
        /\ Cardinality(Emissions("finished_booking")) <= 1
        /\ Cardinality(Emissions("error_occurred")) <= 1
        /\ \A i \in Emissions("finished_booking") : i = Len(signals)
        /\ pc = "finished" => Emissions("finished_booking") # {}

(***************************************************************************)
(* The order of the steps of a run.                                        *)
(***************************************************************************)
\* The step called i-th is the named one.
StepIs(i, name) == i <= Len(steps) /\ steps[i].step = name

\* C20: the steps of a run happen in the order login, navigation, location
\* selection, booking attempts: navigation comes only after a login that
\* succeeded, location selection after navigation, and a booking attempt only
\* after a login that succeeded, navigation and a location selection that was
\* tried; within an attempt the confirmation is tried only after the desk
\* selection returned True (a desk's button was clicked, or the script ran).
C20_StepsInOrder ==
    /\ \A i \in 1..Len(steps) :
          /\ steps[i].step = "login" => i = 1
          /\ steps[i].step = "navigate" => (i = 2 /\ StepIs(1, "login") /\ steps[1].ok)
          /\ steps[i].step = "select_location" => (i = 3 /\ StepIs(2, "navigate"))
          /\ steps[i].step = "book" =>
                /\ i >= 4
                /\ StepIs(1, "login") /\ steps[1].ok
                /\ StepIs(2, "navigate")
                /\ StepIs(3, "select_location")
    /\ (pc = "confirm" \/ last.stage = "confirm") =>
          (last.stage \in {"desk", "confirm"} /\ last.desk \in {"button", "script"})

\* The confirmation of the second date's attempt has been tried, in a run
\* whose location selection returned False.
C20_Witness ==
    /\ Len(steps) = 5
    /\ steps[3].step = "select_location" /\ ~steps[3].ok
    /\ steps[5].step = "book"
    /\ last.stage = "confirm"
    /\ last.desk \in {"button", "script"}

(***************************************************************************)
(* The configuration of a run.                                             *)
(***************************************************************************)
\* How often Config.from_env has returned a configuration: the commands call
\* it once, first of all (main.py 42, 84, 106, 130).
ConfigLoads == IF cmd \in CliCommands /\ config # NoConfig THEN 1 ELSE 0

\* C21: the configuration is an immutable record loaded once per run: a
\* command's configuration stays what Config.from_env produced from the .env
\* file, and the scheduler has loaded a configuration for each of the jobs it
\* has started.
C21_ConfigImmutablePerRun ==
    /\ ConfigLoads > 0 => config = FromEnv(environ).config
    /\ cmd = "schedule" => JobCount <= ConfigLoads

\* C22: every browser resource a run has started (Playwright, browser, page)
\* is closed before the run function returns, on every path.
C22_ClosedWhenRunReturns ==
    pc = "finished" => session = {}

\* C23: a date is recorded as True only if _select_date selected its day in
\* the calendar during the date's attempt, and an attempt whose date could
\* not be selected goes on neither to the desk selection nor to the
\* confirmation.
C23_BookedOnlyOnSelectedDate ==
    /\ (AttemptDone /\ Key \in DOMAIN results /\ results[Key]) => last.selected
    /\ last.stage \in {"desk", "confirm"} => last.selected

\* C24: if the zero-cost "Book for" button was clicked during a date's
\* attempt, the date is recorded as True in the result map, whatever happens
\* later in the attempt.
C24_PlacedBookingReportedTrue ==
    (AttemptDone /\ Clicked("book_for") /\ last.cost = 0) => results[Key]

\* C25: the map run_booking_job returns is all-or-nothing: it is empty, or
\* it has exactly one key for every target date of the run; a run that an
\* exception interrupted returns the empty map, whatever was attempted.
C25_ReturnedMapAllOrNothing ==
    (Job /\ ret.returned) =>
        /\ ret.map = EmptyMap \/ DOMAIN ret.map = TargetKeys
        /\ ret.caught => ret.map = EmptyMap

\* run_booking_job has returned the empty map from a run that was interrupted
\* after a date had been attempted and stored.
C25_Witness ==
    /\ Job
    /\ pc = "finished"
    /\ ret.returned /\ ret.caught
    /\ results # EmptyMap
    /\ ret.map = EmptyMap

(***************************************************************************)
(* The map of a run as the two entries deliver it.                         *)
(***************************************************************************)
\* An exception ended the run: the handler of run_booking_job
\* (scheduler.py 55-57), or of BookingThread.run (booking_thread.py 91-94),
\* has run.
Interrupted ==
    \/ Job /\ ret.caught
    \/ cmd = "gui" /\ \E i \in 1..Len(signals) :
                         /\ signals[i].sig = "error_occurred"
                         /\ signals[i].arg = "exception"

\* What run_booking_job returns for the behaviours the portal has shown:
\* nothing if an exception ended the run, and else the map as built.
ReturnedFor == IF Interrupted THEN EmptyMap ELSE results

\* C26: for the same configuration and the same behaviours of the portal,
\* including a failure that interrupts the run after some dates were
\* attempted, the map BookingThread delivers with finished_booking is the map
\* run_booking_job returns.
C26_SameMapFromGuiAndCli ==
    pc = "finished" =>
        /\ Job => ret.map = ReturnedFor
        /\ cmd = "gui" => FinishedMaps = {ReturnedFor}

\* C27: the list get_next_booking_dates returns is in strictly ascending
\* order of date, so that no date is in it twice, also when the list of
\* weekdays names a weekday more than once; every date lies between the day
\* after today and today + 7 * weeks_ahead + 6 days; the list is empty for
\* weeks_ahead < 0.
C27_AscendingWithinRange ==
    Returned =>
        /\ \A i, j \in 1..Len(dates.dates) : i < j => dates.dates[i] < dates.dates[j]
        /\ \A i \in 1..Len(dates.dates) :
              /\ now + 1 <= dates.dates[i]
              /\ dates.dates[i] <= now + 7 * weeks_ahead + 6
        /\ weeks_ahead < 0 => dates.dates = << >>

\* A call that returned several dates for a list naming one weekday twice,
\* in two spellings.
C27_Witness ==
    /\ Returned
    /\ Len(booking_days) = 2
    /\ booking_days[1] # booking_days[2]
    /\ Lower(booking_days[1]) = Lower(booking_days[2])
    /\ Len(dates.dates) >= 2

(***************************************************************************)
(* The progress of a run in the window.                                    *)
(***************************************************************************)
\* The place of the i-th notification among those of its name.
RankOf(i) == Cardinality({j \in Emissions(signals[i].sig) : j <= i})

\* C28: in a run of BookingThread over n target dates, the result of a date
\* is notified just before the date's progress, the progress values are
\* non-decreasing integers in 1..100, the value 100 is emitted exactly for
\* the n-th date, and there are no more progress values than attempts.
C28_ProgressFollowsResults ==
    cmd = "gui" =>
        /\ \A i \in Emissions("progress_update") :
              /\ i > 1 /\ signals[i - 1].sig = "booking_result"
              /\ RankOf(i) = RankOf(i - 1)
              /\ signals[i].arg \in 1..100
              /\ signals[i].arg = 100 <=> RankOf(i) = Len(dates.dates)
              /\ \A j \in Emissions("progress_update") :
                    j < i => signals[j].arg <= signals[i].arg
        /\ Cardinality(Emissions("progress_update"))
              <= Len(Attempted)

\* The run is over after the attempts of three dates, the progress of the
\* last being 100.
C28_Witness ==
    /\ cmd = "gui"
    /\ pc = "finished"
    /\ Len(dates.dates) = 3
    /\ Cardinality(Emissions("progress_update")) = 3
    /\ signals[Len(signals) - 2].sig = "progress_update"
    /\ signals[Len(signals) - 2].arg = 100

\* C29: the book command exits with a non-zero status exactly when the
\* result map of the run is empty or an error was raised (the configuration
\* did not load); whenever the map is not empty it exits with status 0 and
\* echoes one line per date of the map, whatever the results are.
C29_BookExitStatus ==
    (cmd = "book" /\ pc \in {"finished", "config_error"}) =>
        /\ cli.exit \in {0, 1}
        /\ cli.exit = 1 <=> (pc = "config_error" \/ ret.map = EmptyMap)
        /\ ret.map # EmptyMap =>
              /\ cli.exit = 0
              /\ Len(cli.echoed) = Cardinality(DOMAIN ret.map)
              /\ \A i \in 1..Len(cli.echoed) : cli.echoed[i] = "result"

\* book has ended with status 0 after a run over two dates, none of which was
\* booked.
C29_Witness ==
    /\ cmd = "book"
    /\ pc = "finished"
    /\ Cardinality(DOMAIN ret.map) = 2
    /\ \A k \in DOMAIN ret.map : ~ret.map[k]
    /\ cli.exit = 0
    /\ Len(cli.echoed) = 2

====
